---- MODULE Spec2Model ----
(***************************************************************************)
(* State-machine model of src/src/pool_inner.rs (tang_rs): PoolInner behind *)
(* one Mutex (PoolLock), the acquisition future PoolLockFuture with its     *)
(* Drop, and the callers of the PoolLock operations.                        *)
(*                                                                          *)
(* Every operation takes the mutex in one step and runs its critical        *)
(* section, releasing the mutex, in the next; a waker returned from the     *)
(* critical section is invoked in a third step.                             *)
(***************************************************************************)
EXTENDS Integers, Sequences, FiniteSets, TLC

\* ---------------------------------------------------------------- bounds
NumFutures == 2      \* PoolLockFuture instances
NumThreads == 1      \* threads calling the other PoolLock operations
MaxPoolSize == 2     \* largest max_size (pool_size) tried
MaxRes == 3          \* IdleConn instances alive at once
MaxTime == 1         \* last instant of the clock read by Pending::new
MaxCreating == 2     \* add_idle_conn tasks in flight at once
NumCallers == 2      \* threads that call decr_spawned concurrently
NumContexts == 2     \* distinct Wakers a task is polled with

\* ------------------------------------------------------------- constants
U8 == 256            \* spawned and total() are u8
None == 0            \* Option::None of wait_key / Option<Waker>; mutex free

Futures == 1..NumFutures
Threads == (NumFutures + 1)..(NumFutures + NumThreads)

VARIABLES
    max_size,   \* shared.statics.max_size
    capacity,   \* inner.conn.capacity()
    spawned,    \* PoolInner.spawned
    pending,    \* PoolInner.pending: sequence of start_from instants
    conn,       \* PoolInner.conn: sequence of IdleConn instances
    waiters,    \* PoolInner.waiters: sequence of [key, waker], oldest first
    lock,       \* owner of PoolLock.inner, or None
    fut,        \* per PoolLockFuture: pc, wait_key, acquired, woken (its task
                \* is scheduled), tok (waker its drop still has to invoke),
                \* res (the IdleConn its poll returned, while checked out),
                \* saw (during a poll: conn was not empty when it was called),
                \* cx (which Waker cx.waker() is for it)
    thr,        \* per calling thread: pc, tok (waker still to invoke), arg
                \* (the arguments of the operation it is in)
    creating,   \* add_idle_conn tasks spawned and not yet resolved
    held,       \* IdleConn instances checked out to callers
    now,        \* Instant::now()
    last        \* what the latest step completed: a critical section and what
                \* it saw, or the wake that follows one; op "none" otherwise

vars == <<max_size, capacity, spawned, pending, conn, waiters, lock, fut, thr,
          creating, held, now, last>>

\* ------------------------------------------------------ std::VecDeque
Max(a, b) == IF a >= b THEN a ELSE b

RECURSIVE NextPowerOfTwo(_, _)
NextPowerOfTwo(n, p) == IF p >= n THEN p ELSE NextPowerOfTwo(n, 2 * p)

\* VecDeque::with_capacity(n) reserves "at least" n: exactly n in the current
\* standard library, max(n + 1, 2).next_power_of_two() - 1 in the ring-buffer
\* implementation before Rust 1.67.
WithCapacity(n) == {n, NextPowerOfTwo(Max(n + 1, 2), 1) - 1}

\* capacity after push_back onto a queue of length len
PushCapacity(cap, len) == IF len < cap THEN {cap} ELSE {Max(2 * cap, 4), 2 * cap + 1}

\* ---------------------------------------------------------- WakerList
Keys(w) == {w[i].key : i \in 1..Len(w)}

FreshKey(w) == CHOOSE k \in 1..(Len(w) + 1) : k \notin Keys(w)

\* WakerList::insert
insert(w, waker) == Append(w, [key |-> FreshKey(w), waker |-> waker])

Slot(w, key) == CHOOSE i \in 1..Len(w) : w[i].key = key

\* WakerList::get: the slot's Option<Waker>
get(w, key) == w[Slot(w, key)].waker

\* *WakerList::get(key) = Some(waker)
SetSlot(w, key, waker) == [w EXCEPT ![Slot(w, key)].waker = waker]

RemoveAt(s, i) == SubSeq(s, 1, i - 1) \o SubSeq(s, i + 1, Len(s))

\* WakerList::remove: the list without the slot
remove(w, key) == RemoveAt(w, Slot(w, key))

Populated(w) == {i \in 1..Len(w) : w[i].waker # None}

Oldest(w) == CHOOSE i \in Populated(w) : \A j \in Populated(w) : i <= j

\* WakerList::wake_one_weak: the waker taken, and the list after
wake_one_weak_waker(w) == IF Populated(w) = {} THEN None ELSE w[Oldest(w)].waker

wake_one_weak_list(w) ==
    IF Populated(w) = {} THEN w ELSE [w EXCEPT ![Oldest(w)].waker = None]

\* ---------------------------------------------------------- PoolInner
\* faulty variant: the decrement without the test for zero
decr_spawned_inner_Wrapping(s) == (s + U8 - 1) % U8

decr_spawned_inner(s) == IF s # 0 THEN (s - 1) % U8 ELSE s

\* faulty variant: the rollback pops nothing
decr_pending_inner_Noop(p, count) == p

RECURSIVE decr_pending_inner(_, _)
decr_pending_inner(p, count) ==
    IF count = 0 THEN p
    ELSE decr_pending_inner(IF p = <<>> THEN p ELSE Tail(p), count - 1)

\* faulty variant: total() forgets the pending markers
total_SpawnedOnly(s, p) == s

total(s, p) == (s + (Len(p) % U8)) % U8

\* faulty variant: one marker whatever the count
incr_pending_inner_One(p, count, t) == IF count = 0 THEN p ELSE Append(p, t)

RECURSIVE incr_pending_inner(_, _, _)
incr_pending_inner(p, count, t) ==
    IF count = 0 THEN p ELSE incr_pending_inner(Append(p, t), count - 1, t)

\* the loop of PoolLock::drop_pendings, from index to len - 1
RECURSIVE drop_pendings_loop(_, _, _, _)
drop_pendings_loop(p, index, len, should_drop) ==
    IF index >= len THEN p
    ELSE IF index + 1 <= Len(p) /\ p[index + 1] \in should_drop
         THEN drop_pendings_loop(RemoveAt(p, index + 1), index + 1, len, should_drop)
         ELSE drop_pendings_loop(p, index + 1, len, should_drop)

\* faulty variant: spawned is decremented for every conn examined
RECURSIVE try_drop_conns_loop_DecrEach(_, _, _, _, _)
try_drop_conns_loop_DecrEach(c, s, index, len, should_drop) ==
    IF index >= len THEN <<c, s>>
    ELSE IF index + 1 <= Len(c) /\ c[index + 1] \in should_drop
         THEN try_drop_conns_loop_DecrEach(RemoveAt(c, index + 1),
                  IF s # 0 THEN s - 1 ELSE s, index + 1, len, should_drop)
         ELSE try_drop_conns_loop_DecrEach(c, IF s # 0 THEN s - 1 ELSE s,
                  index + 1, len, should_drop)

\* the loop of PoolLock::try_drop_conns: <<conn, spawned>> after it
RECURSIVE try_drop_conns_loop(_, _, _, _, _)
try_drop_conns_loop(c, s, index, len, should_drop) ==
    IF index >= len THEN <<c, s>>
    ELSE IF index + 1 <= Len(c) /\ c[index + 1] \in should_drop
         THEN try_drop_conns_loop(RemoveAt(c, index + 1), decr_spawned_inner(s),
                                  index + 1, len, should_drop)
         ELSE try_drop_conns_loop(c, s, index + 1, len, should_drop)

\* faulty variant: front() in place of pop_front()
pop_front_Peek(c) == c

\* VecDeque::pop_front: the queue after it
pop_front(c) == Tail(c)

Range(s) == {s[i] : i \in 1..Len(s)}

\* a newly created IdleConn is an instance nobody has
FreshConn == CHOOSE r \in 1..MaxRes : r \notin (Range(conn) \cup held)

\* the arguments of an operation: the predicate (the set it accepts) and
\* min_idle
Arg(should_drop, min_idle) == [should_drop |-> should_drop, min_idle |-> min_idle]

NoArg == Arg({}, 0)

\* the latest step completed nothing
NoLast ==
    [op |-> "none", who |-> None, s0 |-> 0, p0 |-> 0, c0 |-> 0, v |-> None,
     waker |-> None]

\* what a critical section saw when it began, v: the wait_key the future had
\* (PoolLockFuture) or the count returned (PoolLock operations), and waker:
\* the Waker of the Context of a poll
Seen(op, who, v) ==
    [op |-> op, who |-> who, s0 |-> spawned, p0 |-> Len(pending),
     c0 |-> Len(conn), v |-> v, waker |-> None]

\* -------------------------------------------------------------- Init
Init ==
    /\ max_size \in 1..MaxPoolSize
    /\ capacity \in WithCapacity(max_size)
    /\ spawned = 0
    /\ pending = <<>>
    /\ conn = <<>>
    /\ waiters = <<>>
    /\ lock = None
    /\ fut = [f \in Futures |->
                [pc |-> "out", wait_key |-> None, acquired |-> FALSE,
                 woken |-> FALSE, tok |-> None, res |-> None, saw |-> FALSE,
                 cx |-> 0]]
    /\ thr = [t \in Threads |-> [pc |-> "idle", tok |-> None, arg |-> NoArg]]
    /\ creating = 0
    /\ held = {}
    /\ now = 0
    /\ last = [op |-> "new", who |-> None, s0 |-> 0, p0 |-> 0, c0 |-> 0, v |-> None,
               waker |-> None]

\* ------------------------------------------------------ PoolLockFuture
Gone == {"done", "droplock", "dropwake", "dropped"}

\* cx.waker().clone() in a poll of f: the first Waker of a task is the
\* number of its future, the others follow
Waker(f, cx) == f + NumFutures * cx

\* the future whose task a Waker belongs to
Task(waker) == ((waker - 1) % NumFutures) + 1

\* faulty variant: the waker is dropped without being invoked
wake_Lost(fs, tok) == fs

\* WakerOpt::wake: the task of the waker is scheduled to be polled again
wake(fs, tok) ==
    IF tok = None \/ fs[Task(tok)].pc \in Gone THEN fs
    ELSE [fs EXCEPT ![Task(tok)].woken = TRUE]

\* what invoking a waker can do: the Waker of the latest poll schedules the
\* task; an older Waker of the task may schedule it or do nothing
Wakes(fs, tok) ==
    IF tok = None \/ tok = Waker(Task(tok), fs[Task(tok)].cx)
    THEN {wake(fs, tok)}
    ELSE {wake(fs, tok), fs}

\* the task of f is polled with another Waker from now on
NewContext(f) ==
    /\ fut[f].pc = "out"
    /\ fut' = [fut EXCEPT ![f].cx = (fut[f].cx + 1) % NumContexts]
    /\ UNCHANGED <<max_size, capacity, spawned, pending, conn, waiters, lock,
                   thr, creating, held, now>>
    /\ last' = NoLast

\* the executor polls the future: try_lock
PollStart(f) ==
    /\ fut[f].pc = "out"
    /\ IF lock = None
       THEN /\ lock' = f
            /\ fut' = [fut EXCEPT ![f].pc = "fast", ![f].woken = FALSE,
                                  ![f].saw = conn # <<>>]
       ELSE /\ lock' = lock
            /\ fut' = [fut EXCEPT ![f].pc = "wantlock", ![f].woken = FALSE,
                                  ![f].saw = conn # <<>>]
    /\ UNCHANGED <<max_size, capacity, spawned, pending, conn, waiters, thr,
                   creating, held, now>>
    /\ last' = NoLast

\* faulty variant: Ready without waiters.remove(wait_key)
Ready_KeepSlot(f) ==
    /\ conn' = pop_front(conn)
    /\ held' = held \cup {Head(conn)}
    /\ waiters' = waiters
    /\ fut' = [fut EXCEPT ![f].pc = "done", ![f].wait_key = None,
                          ![f].acquired = TRUE, ![f].res = Head(conn),
                          ![f].woken = FALSE, ![f].saw = FALSE]
    /\ lock' = None
    /\ last' = Seen("ready", f, fut[f].wait_key)
    /\ UNCHANGED <<max_size, capacity, spawned, pending, thr, creating, now>>

\* return Poll::Ready(conn)
Ready(f) ==
    /\ conn' = pop_front(conn)
    /\ held' = held \cup {Head(conn)}
    /\ waiters' = IF fut[f].wait_key # None
                  THEN remove(waiters, fut[f].wait_key) ELSE waiters
    /\ fut' = [fut EXCEPT ![f].pc = "done", ![f].wait_key = None,
                          ![f].acquired = TRUE, ![f].res = Head(conn),
                          ![f].woken = FALSE, ![f].saw = FALSE]
    /\ lock' = None
    /\ last' = Seen("ready", f, fut[f].wait_key)
    /\ UNCHANGED <<max_size, capacity, spawned, pending, thr, creating, now>>

\* the try_lock succeeded: pop or give the lock back
PollFast(f) ==
    /\ fut[f].pc = "fast"
    /\ IF conn # <<>>
       THEN Ready(f)
       ELSE /\ lock' = None
            /\ fut' = [fut EXCEPT ![f].pc = "wantlock"]
            /\ UNCHANGED <<max_size, capacity, spawned, pending, conn, waiters,
                           thr, creating, held, now>>
            /\ last' = NoLast

\* pool_lock.inner.lock()
PollLock(f) ==
    /\ fut[f].pc = "wantlock"
    /\ lock = None
    /\ lock' = f
    /\ fut' = [fut EXCEPT ![f].pc = "slow"]
    /\ UNCHANGED <<max_size, capacity, spawned, pending, conn, waiters, thr,
                   creating, held, now>>
    /\ last' = NoLast

\* outcomes of shared.spawn: Ok (TRUE) or Err (FALSE)
SpawnResults == IF creating < MaxCreating THEN BOOLEAN ELSE {FALSE}

\* faulty variant: a future that has a wait_key always writes its waker
Register_Overwrite(w, key, f) ==
    IF key # None THEN SetSlot(w, key, f) ELSE insert(w, f)

\* faulty variant: a future that has a wait_key never writes its waker again
Register_NoRefresh(w, key, f) == IF key # None THEN w ELSE insert(w, f)

\* the match on self.wait_key at the end of poll with f = cx.waker():
\* waiters after it
Register(w, key, f) ==
    IF key # None
    THEN IF get(w, key) = None THEN SetSlot(w, key, f) ELSE w
    ELSE insert(w, f)

\* the rest of poll under the full lock; oks: what shared.spawn may return
PollSlowWith(f, oks) ==
    /\ fut[f].pc = "slow"
    /\ IF conn # <<>>
       THEN Ready(f)
       ELSE \E ok \in oks :
            LET try == total(spawned, pending) < max_size
                p1 == incr_pending_inner(pending, 1, now)
                key == fut[f].wait_key
            IN  /\ pending' = IF ~try THEN pending
                              ELSE IF ok THEN p1 ELSE decr_pending_inner(p1, 1)
                /\ creating' = IF try /\ ok THEN creating + 1 ELSE creating
                /\ waiters' = Register(waiters, key, Waker(f, fut[f].cx))
                /\ fut' = [fut EXCEPT ![f].pc = "out", ![f].saw = FALSE,
                              ![f].wait_key = IF key # None THEN key
                                              ELSE FreshKey(waiters)]
                /\ lock' = None
                /\ last' = [Seen(IF ~try THEN "pending"
                                 ELSE IF ok THEN "spawn" ELSE "spawn_err", f, key)
                            EXCEPT !.waker = Waker(f, fut[f].cx)]
                /\ UNCHANGED <<max_size, capacity, spawned, conn, thr, held, now>>

PollSlow(f) == PollSlowWith(f, SpawnResults)

\* faulty variant: the future goes away without running its drop
DropStart_Forget(f) ==
    /\ fut[f].pc \in {"out", "done"}
    /\ fut' = [fut EXCEPT ![f].pc = "dropped", ![f].woken = FALSE]
    /\ UNCHANGED <<max_size, capacity, spawned, pending, conn, waiters, lock,
                   thr, creating, held, now>>
    /\ last' = NoLast

\* the future is dropped: nothing to do without a wait_key, else lock
DropStart(f) ==
    /\ fut[f].pc \in {"out", "done"}
    /\ IF fut[f].wait_key = None
       THEN /\ fut' = [fut EXCEPT ![f].pc = "dropped", ![f].woken = FALSE]
            /\ lock' = lock
       ELSE /\ lock = None
            /\ lock' = f
            /\ fut' = [fut EXCEPT ![f].pc = "droplock", ![f].woken = FALSE]
    /\ UNCHANGED <<max_size, capacity, spawned, pending, conn, waiters, thr,
                   creating, held, now>>
    /\ last' = NoLast

\* faulty variant: every drop of a registered future wakes another task
DropNotifies_Always(wait_key, acquired) == TRUE

\* faulty variant: a dropped future never wakes another task
DropNotifies_Never(wait_key, acquired) == FALSE

\* "We were awoken but didn't acquire the lock. Wake up another task."
DropNotifies(wait_key, acquired) == wait_key = None /\ ~acquired

\* Drop for PoolLockFuture under the lock
DropBody(f) ==
    /\ fut[f].pc = "droplock"
    /\ LET key == fut[f].wait_key
           wait_key == get(waiters, key)
           w1 == remove(waiters, key)
           notify == DropNotifies(wait_key, fut[f].acquired)
           tok == IF notify THEN wake_one_weak_waker(w1) ELSE None
       IN  /\ waiters' = IF notify THEN wake_one_weak_list(w1) ELSE w1
           /\ fut' = [fut EXCEPT ![f].pc = IF tok = None THEN "dropped" ELSE "dropwake",
                                 ![f].wait_key = None, ![f].tok = tok]
           /\ last' = Seen(IF notify THEN "drop_notify" ELSE "drop", f, key)
    /\ lock' = None
    /\ UNCHANGED <<max_size, capacity, spawned, pending, conn, thr, creating,
                   held, now>>

\* .wake() of Drop, after the guard is gone
DropWake(f) ==
    /\ fut[f].pc = "dropwake"
    /\ \E fs \in Wakes(fut, fut[f].tok) :
         fut' = [fs EXCEPT ![f].pc = "dropped", ![f].tok = None]
    /\ UNCHANGED <<max_size, capacity, spawned, pending, conn, waiters, lock,
                   thr, creating, held, now>>
    /\ last' = NoLast

\* ------------------------------------------------- callers of PoolLock
Ops == {"put_back", "put_back_incr_spawned", "decr_spawned", "decr_pending",
        "drop_pendings", "try_drop_conns", "state"}

\* the operations that resolve a creation, with decr_spawned
FreeOps == {"put_back_incr_spawned", "decr_spawned", "decr_pending"}

\* the operations that hand a conn to the pool
GiveOps == {"put_back", "put_back_incr_spawned"}

\* who calls what: a conn is put back by the caller it is checked out to,
\* add_idle_conn resolves into put_back_incr_spawned (a new conn) or
\* decr_pending(1), and decr_spawned is called for a checked-out conn that
\* does not return to the pool (owned) or by anybody (~owned)
CanCall(op, owned) ==
    CASE op = "put_back" -> held # {}
      [] op = "put_back_incr_spawned" ->
            creating > 0 /\ Cardinality(Range(conn) \cup held) < MaxRes
      [] op = "decr_pending" -> creating > 0
      [] op = "decr_spawned" -> owned => held # {}
      [] OTHER -> TRUE

\* the try_spawn closures: none for min_idle = 0, else "replenish up to
\* min_idle"; the count returned, None when the closure returns None
try_spawn(min_idle, tot) == IF tot < min_idle THEN min_idle - tot ELSE None

\* min_idle values whose replenishment the executor can take
MinIdles(s, p) ==
    {m \in 0..max_size : creating + try_spawn(m, total(s, p)) <= MaxCreating}

\* the arguments an operation is called with: a predicate is the set of the
\* queued markers / conns it accepts
Args(op) ==
    CASE op = "drop_pendings" ->
            {Arg(should_drop, 0) : should_drop \in SUBSET Range(pending)}
      [] op = "try_drop_conns" ->
            UNION {{Arg(should_drop, min_idle) :
                      min_idle \in MinIdles(
                          try_drop_conns_loop(conn, spawned, 0, Len(conn),
                                              should_drop)[2], pending)} :
                   should_drop \in SUBSET Range(conn)}
      [] op = "decr_spawned" ->
            {Arg({}, min_idle) :
               min_idle \in MinIdles(decr_spawned_inner(spawned), pending)}
      [] OTHER -> {NoArg}

\* self.inner.lock() / try_lock() of a PoolLock operation succeeds
Call(t, ops, owned) ==
    /\ thr[t].pc = "idle"
    /\ lock = None
    /\ \E op \in ops :
         /\ CanCall(op, owned)
         /\ \E arg \in Args(op) : thr' = [thr EXCEPT ![t].pc = op, ![t].arg = arg]
         /\ creating' = IF op \in {"put_back_incr_spawned", "decr_pending"}
                        THEN creating - 1 ELSE creating
    /\ lock' = t
    /\ UNCHANGED <<max_size, capacity, spawned, pending, conn, waiters, fut,
                   held, now>>
    /\ last' = NoLast

\* faulty variant: the Option<Waker> of wake_one_weak is dropped, not woken
Notify_Forget(t, w) ==
    /\ waiters' = wake_one_weak_list(w)
    /\ thr' = [thr EXCEPT ![t].tok = None, ![t].pc = "idle"]
    /\ lock' = None

\* a thread at the .wake() that ends put_back / put_back_incr_spawned
WakePcs == {"put_back.wake", "put_back_incr_spawned.wake"}

\* what leaves the critical section of put_back / put_back_incr_spawned
Notify(t, w) ==
    /\ waiters' = wake_one_weak_list(w)
    /\ thr' = [thr EXCEPT ![t].tok = wake_one_weak_waker(w),
                          ![t].pc = IF wake_one_weak_waker(w) = None
                                    THEN "idle"
                                    ELSE IF thr[t].pc = "put_back"
                                    THEN "put_back.wake"
                                    ELSE "put_back_incr_spawned.wake"]
    /\ lock' = None

\* the conn is no longer checked out
GiveUp(fs, r) == [f \in Futures |-> IF fs[f].res = r THEN [fs[f] EXCEPT !.res = None]
                                    ELSE fs[f]]

\* PoolLock::put_back
PutBack(t) ==
    /\ thr[t].pc = "put_back"
    /\ \E r \in held :
         /\ conn' = Append(conn, r)
         /\ held' = held \ {r}
         /\ fut' = GiveUp(fut, r)
    /\ capacity' \in PushCapacity(capacity, Len(conn))
    /\ Notify(t, waiters)
    /\ last' = Seen("put_back", t, wake_one_weak_waker(waiters))
    /\ UNCHANGED <<max_size, spawned, pending, creating, now>>

\* faulty variant: the new conn is pushed without the test of capacity()
PutBackIncrSpawned_Always(t) ==
    /\ thr[t].pc = "put_back_incr_spawned"
    /\ pending' = decr_pending_inner(pending, 1)
    /\ conn' = Append(conn, FreshConn)
    /\ spawned' = (spawned + 1) % U8
    /\ capacity' \in PushCapacity(capacity, Len(conn))
    /\ Notify(t, waiters)
    /\ last' = Seen("put_back_incr_spawned", t, wake_one_weak_waker(waiters))
    /\ UNCHANGED <<max_size, fut, creating, held, now>>

\* PoolLock::put_back_incr_spawned
PutBackIncrSpawned(t) ==
    /\ thr[t].pc = "put_back_incr_spawned"
    /\ pending' = decr_pending_inner(pending, 1)
    /\ IF spawned < capacity
       THEN /\ conn' = Append(conn, FreshConn)
            /\ spawned' = (spawned + 1) % U8
            /\ capacity' \in PushCapacity(capacity, Len(conn))
       ELSE UNCHANGED <<conn, spawned, capacity>>
    /\ Notify(t, waiters)
    /\ last' = Seen("put_back_incr_spawned", t, wake_one_weak_waker(waiters))
    /\ UNCHANGED <<max_size, fut, creating, held, now>>

\* .wake() of put_back / put_back_incr_spawned, after the guard is gone
Wake(t) ==
    /\ thr[t].pc \in WakePcs
    /\ fut' \in Wakes(fut, thr[t].tok)
    /\ thr' = [thr EXCEPT ![t].pc = "idle", ![t].tok = None]
    /\ last' = Seen("wake", t, thr[t].tok)
    /\ UNCHANGED <<max_size, capacity, spawned, pending, conn, waiters, lock,
                   creating, held, now>>

\* faulty variant: try_spawn is given the total read before the decrement
DecrSpawned_StaleTotal(t, owned) ==
    /\ thr[t].pc = "decr_spawned"
    /\ IF owned
       THEN \E r \in held : held' = held \ {r} /\ fut' = GiveUp(fut, r)
       ELSE UNCHANGED <<held, fut>>
    /\ spawned' = decr_spawned_inner(spawned)
    /\ LET pending_new == try_spawn(thr[t].arg.min_idle, total(spawned, pending))
       IN  /\ pending' = incr_pending_inner(pending, pending_new, now)
           /\ creating' = creating + pending_new
           /\ last' = Seen("decr_spawned", t, pending_new)
    /\ lock' = None
    /\ thr' = [thr EXCEPT ![t].pc = "idle", ![t].arg = NoArg]
    /\ UNCHANGED <<max_size, capacity, conn, waiters, now>>

\* PoolLock::decr_spawned
DecrSpawned(t, owned) ==
    /\ thr[t].pc = "decr_spawned"
    /\ IF owned
       THEN \E r \in held : held' = held \ {r} /\ fut' = GiveUp(fut, r)
       ELSE UNCHANGED <<held, fut>>
    /\ spawned' = decr_spawned_inner(spawned)
    /\ LET pending_new == try_spawn(thr[t].arg.min_idle,
                                    total(decr_spawned_inner(spawned), pending))
       IN  /\ pending' = incr_pending_inner(pending, pending_new, now)
           /\ creating' = creating + pending_new
           /\ last' = Seen("decr_spawned", t, pending_new)
    /\ lock' = None
    /\ thr' = [thr EXCEPT ![t].pc = "idle", ![t].arg = NoArg]
    /\ UNCHANGED <<max_size, capacity, conn, waiters, now>>

\* PoolLock::decr_pending(1)
DecrPending(t) ==
    /\ thr[t].pc = "decr_pending"
    /\ pending' = decr_pending_inner(pending, 1)
    /\ lock' = None
    /\ thr' = [thr EXCEPT ![t].pc = "idle"]
    /\ last' = Seen("decr_pending", t, None)
    /\ UNCHANGED <<max_size, capacity, spawned, conn, waiters, fut, creating,
                   held, now>>

\* PoolLock::drop_pendings
DropPendings(t) ==
    /\ thr[t].pc = "drop_pendings"
    /\ pending' = drop_pendings_loop(pending, 0, Len(pending),
                                     thr[t].arg.should_drop)
    /\ last' = Seen("drop_pendings", t, None)
    /\ lock' = None
    /\ thr' = [thr EXCEPT ![t].pc = "idle", ![t].arg = NoArg]
    /\ UNCHANGED <<max_size, capacity, spawned, conn, waiters, fut, creating,
                   held, now>>

\* PoolLock::try_drop_conns with the lock
TryDropConns(t) ==
    /\ thr[t].pc = "try_drop_conns"
    /\ LET after == try_drop_conns_loop(conn, spawned, 0, Len(conn),
                                        thr[t].arg.should_drop)
           min_idle == thr[t].arg.min_idle
           total_now == total(after[2], pending)
           pending_new == IF total_now < min_idle
                          THEN min_idle - total_now ELSE None
       IN  /\ conn' = after[1]
           /\ spawned' = after[2]
           /\ pending' = incr_pending_inner(pending, pending_new, now)
           /\ creating' = creating + pending_new
           /\ last' = Seen("try_drop_conns", t, pending_new)
    /\ lock' = None
    /\ thr' = [thr EXCEPT ![t].pc = "idle", ![t].arg = NoArg]
    /\ UNCHANGED <<max_size, capacity, waiters, fut, held, now>>

\* faulty variant: the replenishment is decided without the lock
TryDropConnsBusy_Replenish(t) ==
    /\ thr[t].pc = "idle"
    /\ lock # None
    /\ pending' = IF total(spawned, pending) < max_size
                  THEN incr_pending_inner(pending, 1, now) ELSE pending
    /\ last' = Seen("try_drop_conns_busy", t, None)
    /\ UNCHANGED <<max_size, capacity, spawned, conn, waiters, lock,
                   fut, thr, creating, held, now>>

\* PoolLock::try_drop_conns when try_lock fails: None
TryDropConnsBusy(t) ==
    /\ thr[t].pc = "idle"
    /\ lock # None
    /\ last' = Seen("try_drop_conns_busy", t, None)
    /\ UNCHANGED <<max_size, capacity, spawned, pending, conn, waiters, lock,
                   fut, thr, creating, held, now>>

\* PoolLock::state
State(t) ==
    /\ thr[t].pc = "state"
    /\ lock' = None
    /\ thr' = [thr EXCEPT ![t].pc = "idle"]
    /\ last' = Seen("state", t, None)
    /\ UNCHANGED <<max_size, capacity, spawned, pending, conn, waiters, fut,
                   creating, held, now>>

\* time passes
Tick ==
    /\ now < MaxTime
    /\ now' = now + 1
    /\ UNCHANGED <<max_size, capacity, spawned, pending, conn, waiters, lock,
                   fut, thr, creating, held>>
    /\ last' = NoLast

\* ------------------------------------------------------ specifications
PollNext(f) == PollStart(f) \/ PollFast(f) \/ PollLock(f) \/ PollSlow(f)

DropNext(f) == DropStart(f) \/ DropBody(f) \/ DropWake(f)

OpNext(t) ==
    \/ PutBack(t)
    \/ PutBackIncrSpawned(t)
    \/ Wake(t)
    \/ DecrPending(t)
    \/ DropPendings(t)
    \/ TryDropConns(t)
    \/ TryDropConnsBusy(t)
    \/ State(t)

\* callers that own what they give back
Next ==
    \/ \E f \in Futures : PollNext(f) \/ DropNext(f)
    \/ \E t \in Threads : Call(t, Ops, TRUE) \/ DecrSpawned(t, TRUE) \/ OpNext(t)
    \/ Tick

Spec == Init /\ [][Next]_vars

\* any caller may call decr_spawned
NextFree ==
    \/ \E f \in Futures : PollNext(f)
    \/ \E t \in Threads :
         \/ Call(t, FreeOps, FALSE)
         \/ DecrSpawned(t, FALSE)
         \/ PutBackIncrSpawned(t)
         \/ Wake(t)
         \/ DecrPending(t)

SpecFree == Init /\ [][NextFree]_vars

\* -------------------------------------------- a pool with conns checked out
\* the pool after earlier callers acquired k conns that they still hold
InitOut ==
    /\ max_size \in 1..MaxPoolSize
    /\ capacity \in WithCapacity(max_size)
    /\ \E k \in 0..max_size : spawned = k /\ held = 1..k
    /\ pending = <<>>
    /\ conn = <<>>
    /\ waiters = <<>>
    /\ lock = None
    /\ fut = [f \in Futures |->
                [pc |-> "out", wait_key |-> None, acquired |-> FALSE,
                 woken |-> FALSE, tok |-> None, res |-> None, saw |-> FALSE,
                 cx |-> 0]]
    /\ thr = [t \in Threads |-> [pc |-> "idle", tok |-> None, arg |-> NoArg]]
    /\ creating = 0
    /\ now = 0
    /\ last = [op |-> "new", who |-> None, s0 |-> 0, p0 |-> 0, c0 |-> 0, v |-> None,
               waker |-> None]

\* acquirers, cancellations, and callers that hand conns to the pool
NextLive ==
    \/ \E f \in Futures : PollNext(f) \/ DropNext(f)
    \/ \E t \in Threads :
         \/ Call(t, GiveOps, TRUE)
         \/ PutBack(t)
         \/ PutBackIncrSpawned(t)
         \/ Wake(t)

\* the executor polls a task whose waker was invoked
WokenPoll(f) == fut[f].woken /\ PollStart(f)

\* a woken task is polled, a poll and a drop run to their end, lock() is
\* granted to a thread that keeps asking, and an operation that holds the
\* lock finishes and invokes its waker; nobody has to call anything
Fairness ==
    /\ \A f \in Futures :
         /\ WF_vars(WokenPoll(f))
         /\ WF_vars(PollFast(f))
         /\ SF_vars(PollLock(f))
         /\ WF_vars(PollSlow(f))
         /\ WF_vars(DropBody(f))
         /\ WF_vars(DropWake(f))
    /\ \A t \in Threads :
         /\ WF_vars(PutBack(t))
         /\ WF_vars(PutBackIncrSpawned(t))
         /\ WF_vars(Wake(t))

SpecLive == InitOut /\ [][NextLive]_vars /\ Fairness

\* ----------------------------------- N acquirers of an empty pool of size N
Min(a, b) == IF a <= b THEN a ELSE b

\* max_size = N and the futures 1..N exist
InitA ==
    /\ max_size \in 1..Min(NumFutures, MaxPoolSize)
    /\ capacity \in WithCapacity(max_size)
    /\ spawned = 0
    /\ pending = <<>>
    /\ conn = <<>>
    /\ waiters = <<>>
    /\ lock = None
    /\ fut = [f \in Futures |->
                [pc |-> IF f <= max_size THEN "out" ELSE "dropped",
                 wait_key |-> None, acquired |-> FALSE,
                 woken |-> FALSE, tok |-> None, res |-> None, saw |-> FALSE,
                 cx |-> 0]]
    /\ thr = [t \in Threads |-> [pc |-> "idle", tok |-> None, arg |-> NoArg]]
    /\ creating = 0
    /\ held = {}
    /\ now = 0
    /\ last = [op |-> "new", who |-> None, s0 |-> 0, p0 |-> 0, c0 |-> 0, v |-> None,
               waker |-> None]

Acquirers == {f \in Futures : f <= max_size}

\* every acquirer has returned from its first poll
AllPolledOnce ==
    \A f \in Acquirers : fut[f].wait_key # None \/ fut[f].acquired

\* every acquirer is polled before a creation completes; shared.spawn and
\* the creations succeed, no conn is given back and nothing is dropped
NextA ==
    \/ \E f \in Futures :
         PollStart(f) \/ PollFast(f) \/ PollLock(f) \/ PollSlowWith(f, {TRUE})
    \/ \E t \in Threads :
         \/ AllPolledOnce /\ Call(t, {"put_back_incr_spawned"}, TRUE)
         \/ PutBackIncrSpawned(t)
         \/ Wake(t)

SpecA == InitA /\ [][NextA]_vars

\* ------------------------------- callers that lose conns at the same time
Callers == (NumFutures + 1)..(NumFutures + NumCallers)

\* the pool after k conns were checked out, with NumCallers calling threads
InitDecr ==
    /\ max_size \in 1..MaxPoolSize
    /\ capacity \in WithCapacity(max_size)
    /\ \E k \in 0..max_size : spawned = k /\ held = 1..k
    /\ pending = <<>>
    /\ conn = <<>>
    /\ waiters = <<>>
    /\ lock = None
    /\ fut = [f \in Futures |->
                [pc |-> "dropped", wait_key |-> None, acquired |-> FALSE,
                 woken |-> FALSE, tok |-> None, res |-> None, saw |-> FALSE,
                 cx |-> 0]]
    /\ thr = [t \in Callers |-> [pc |-> "idle", tok |-> None, arg |-> NoArg]]
    /\ creating = 0
    /\ now = 0
    /\ last = [op |-> "new", who |-> None, s0 |-> 0, p0 |-> 0, c0 |-> 0, v |-> None,
               waker |-> None]

\* each caller reports a conn that does not come back (decr_spawned with its
\* try_spawn closure); the creations it asks for complete or fail
NextDecr ==
    \/ \E t \in Callers :
         \/ Call(t, FreeOps, TRUE)
         \/ DecrSpawned(t, TRUE)
         \/ PutBackIncrSpawned(t)
         \/ DecrPending(t)
    \/ Tick

SpecDecr == InitDecr /\ [][NextDecr]_vars

\* --------------------------------------- tasks whose Waker changes
\* acquirers that are polled with changing Wakers, cancellations, and
\* callers that hand conns to the pool
NextCx ==
    \/ \E f \in Futures : PollNext(f) \/ DropNext(f) \/ NewContext(f)
    \/ \E t \in Threads :
         \/ Call(t, GiveOps, TRUE)
         \/ PutBack(t)
         \/ PutBackIncrSpawned(t)
         \/ Wake(t)

SpecCx == InitOut /\ [][NextCx]_vars

\* ============================================================== claims

\* C1: whenever the lock is released, spawned + |pending| <= max_size, also
\* when a marker was removed by drop_pendings while its creation was in
\* flight and that creation completes later.
C1_TotalWithinMaxSize == lock = None => spawned + Len(pending) <= max_size

C4_OneOwner ==
    /\ \A i, j \in 1..Len(conn) : i # j => conn[i] # conn[j]
    /\ Range(conn) \cap held = {}
    /\ \A f \in Futures : fut[f].res # None => fut[f].res \in held
    /\ \A f, g \in Futures : f # g /\ fut[f].res # None => fut[f].res # fut[g].res

\* two futures have each returned a conn while a third conn is idle
C4_Witness ==
    /\ \A f \in Futures : fut[f].acquired /\ fut[f].res # None
    /\ conn # <<>>

\* C6: put_back and put_back_incr_spawned take the waker of exactly one slot
\* when a slot is populated and of none otherwise, wake nobody while they hold
\* the lock, and the waker is invoked after the lock was released and wakes
\* at most the one task.
C6_WakeOne ==
    [][\A t \in Threads :
         /\ (thr[t].pc \in {"put_back", "put_back_incr_spawned"}
             /\ thr'[t].pc # thr[t].pc)
            => /\ lock = t /\ lock' = None
               /\ \A f \in Futures : fut'[f].woken = fut[f].woken
               /\ IF Populated(waiters) # {}
                  THEN /\ thr'[t].pc \in WakePcs
                       /\ thr'[t].tok \in Futures
                       /\ \E i \in Populated(waiters) :
                            /\ waiters[i].waker = thr'[t].tok
                            /\ Populated(waiters') = Populated(waiters) \ {i}
                  ELSE /\ thr'[t].pc = "idle"
                       /\ thr'[t].tok = None
                       /\ waiters' = waiters
         /\ (thr[t].pc \in WakePcs /\ thr'[t].pc \notin WakePcs)
            => /\ lock # t
               /\ \A f \in Futures :
                    fut'[f].woken # fut[f].woken => f = thr[t].tok
      ]_vars

\* a put_back took the waker of a parked future, released the lock and woke it
C6_Witness ==
    /\ last.op = "wake"
    /\ last.v \in Futures
    /\ \A t \in Threads : thr[t].pc = "idle"
    /\ fut[last.v].woken
    /\ fut[last.v].pc = "out"

\* C7: decr_spawned never takes spawned below zero: it never raises spawned,
\* and at spawned = 0 it leaves 0 (no wrap to 255).
C7_Saturating ==
    [][\A t \in Threads :
         (thr[t].pc = "decr_spawned" /\ thr'[t].pc = "idle")
         => /\ spawned' <= spawned
            /\ spawned = 0 => spawned' = 0
      ]_vars

\* decr_spawned ran at spawned = 0
C7_Witness ==
    /\ last.op = "decr_spawned"
    /\ last.s0 = 0
    /\ spawned = 0

\* C8: a poll whose shared.spawn fails leaves the number of pending markers
\* and of creations in flight what they were when it took the lock.
C8_Rollback ==
    [][\A f \in Futures :
         (fut[f].pc = "slow" /\ fut'[f].pc = "out" /\ last'.op = "spawn_err")
         => /\ Len(pending') = Len(pending)
            /\ creating' = creating
            /\ lock' = None
      ]_vars

\* a poll rolled back its marker while another creation was pending
C8_Witness ==
    /\ last.op = "spawn_err"
    /\ last.p0 >= 1
    /\ Len(pending) = last.p0
    /\ lock = None

\* a poll ends: Ready or Pending
PollEnds(f) == fut[f].pc \in {"fast", "slow"} /\ fut'[f].pc \in {"out", "done"}

\* C10 as stated: a poll called while the idle queue is not empty returns
\* Ready.
C10_ReadyIfIdleWhenCalled ==
    [][\A f \in Futures : (PollEnds(f) /\ fut[f].saw) => fut'[f].pc = "done"]_vars

\* C10: a poll that finds the idle queue not empty once it holds the lock
\* (try_lock or lock) returns the front conn, adds no pending marker, spawns
\* no creation and leaves no slot of the future in waiters.
C10_ReadyIfIdleUnderLock ==
    [][\A f \in Futures :
         (fut[f].pc \in {"fast", "slow"} /\ fut'[f].pc # fut[f].pc /\ conn # <<>>)
         => /\ fut'[f].pc = "done"
            /\ fut'[f].res = Head(conn)
            /\ conn' = Tail(conn)
            /\ pending' = pending
            /\ creating' = creating
            /\ fut'[f].wait_key = None
            /\ fut[f].wait_key # None
                 => Keys(waiters') = Keys(waiters) \ {fut[f].wait_key}
            /\ fut[f].wait_key = None => waiters' = waiters
            /\ \A i \in 1..Len(waiters') : waiters'[i].waker # f
      ]_vars

\* a registered future was polled again and returned the idle conn
C10_Witness ==
    /\ last.op = "ready"
    /\ last.v # None
    /\ last.c0 >= 1
    /\ fut[last.who].pc = "done"
    /\ fut[last.who].wait_key = None

\* live futures that hold a slot of waiters
Waiting == {f \in Futures : fut[f].wait_key # None /\ fut[f].pc \notin Gone}

\* put_back / put_back_incr_spawned just pushed a conn while a waiter lives
PushedWithWaiters ==
    /\ last.op \in {"put_back", "put_back_incr_spawned"}
    /\ Len(conn) > last.c0
    /\ Waiting # {}

\* a future that held a slot was polled again and found the queue not empty
WaiterObserved == last.op = "ready" /\ last.v # None

\* C3 as stated: every call that pushes a conn is followed by a live waiter
\* that polls again and finds the idle queue not empty, unless no waiter
\* stays alive.
C3_WaiterObservesEveryPush == PushedWithWaiters ~> (WaiterObserved \/ Waiting = {})

\* C3: a conn never stays idle for ever while a live waiter holds a slot:
\* the queue is emptied by some poll (of a woken waiter or of a future polled
\* for the first time) or no waiter stays alive.
C3_NoLostWakeup == (conn # <<>> /\ Waiting # {}) ~> (conn = <<>> \/ Waiting = {})

\* a conn was pushed while a waiter was parked, and the waiter took it later
C3_Witness ==
    /\ WaiterObserved
    /\ last.c0 >= 1
    /\ fut[last.who].pc = "done"
    /\ \E g \in Futures : g # last.who /\ g \in Waiting

\* W1 = f was notified and is dropped before it polled again, its drop took
\* the waker of W2 = g, and there is no third acquirer
ScenarioC(f, g) ==
    /\ f # g
    /\ fut[f].pc = "dropwake"
    /\ fut[f].tok = g
    /\ g \in Waiting
    /\ conn # <<>>
    /\ \A h \in Futures \ {f, g} : fut[h].pc \in {"done", "dropped"}

\* C5: when a notified waiter W1 is dropped before it polls again while W2
\* is parked, the drop takes the waker of W2 (the oldest populated slot), its
\* wake schedules W2, and W2 then acquires the conn unless it is dropped too.
C5_ScenarioC ==
    /\ [][\A f \in Futures :
            /\ (fut[f].pc = "droplock" /\ fut'[f].pc # "droplock"
                /\ get(waiters, fut[f].wait_key) = None /\ ~fut[f].acquired
                /\ Populated(remove(waiters, fut[f].wait_key)) # {})
               => /\ fut'[f].pc = "dropwake"
                  /\ fut'[f].tok \in Waiting \ {f}
                  /\ \E i \in Populated(waiters) :
                       /\ waiters[i].waker = fut'[f].tok
                       /\ \A j \in Populated(waiters) : i <= j
            /\ (fut[f].pc = "dropwake" /\ fut'[f].pc = "dropped"
                /\ fut[fut[f].tok].pc = "out")
               => fut'[fut[f].tok].woken
         ]_vars
    /\ \A f, g \in Futures :
         ScenarioC(f, g) ~> (fut[g].pc = "done" \/ fut[g].pc \in Gone \ {"done"})

\* put_back took the waker of W1, and the drop of W1 has taken the waker of
\* the parked W2 while the conn that was put back is idle
C5_Witness ==
    \E f, g \in Futures :
      /\ ScenarioC(f, g)
      /\ last.op = "drop_notify" /\ last.who = f
      /\ fut[g].pc = "out" /\ ~fut[g].woken
      /\ \E t \in Threads : thr[t].pc = "put_back.wake" /\ thr[t].tok = f

\* no operation and no poll is under way and no wake is outstanding
Quiet ==
    /\ lock = None
    /\ \A t \in Threads : thr[t].pc = "idle"
    /\ \A f \in Acquirers : fut[f].pc \in {"out", "done"} /\ ~fut[f].woken

Completed == {f \in Acquirers : fut[f].pc = "done"}

\* the creations that have not come to put_back_incr_spawned's critical
\* section
Unresolved ==
    creating + Cardinality({t \in Threads : thr[t].pc = "put_back_incr_spawned"})

\* C9: N acquirers of an empty pool with max_size = N. Once each has been
\* polled, N creations were spawned and no poll spawns another (pending = N
\* while spawned = 0); when k creations have completed and the woken
\* acquirers have polled again, k acquirers hold k distinct conns,
\* spawned = k, pending = N - k and nothing is idle; after the last one every
\* acquirer has completed, spawned = N and pending = 0.
C9_ScenarioA ==
    /\ spawned + Len(pending) <= max_size
    /\ Len(pending) = Unresolved
    /\ AllPolledOnce => spawned + Len(pending) = max_size
    /\ (Quiet /\ AllPolledOnce)
       => /\ conn = <<>>
          /\ Cardinality(Completed) = spawned
          /\ Cardinality({fut[f].res : f \in Completed}) = spawned
          /\ Len(pending) = max_size - spawned
    /\ (Quiet /\ AllPolledOnce /\ creating = 0)
       => /\ Completed = Acquirers
          /\ spawned = max_size
          /\ pending = <<>>

\* two acquirers have completed with two conns
C9_Witness ==
    /\ max_size = 2
    /\ Quiet
    /\ Completed = Acquirers
    /\ spawned = 2 /\ pending = <<>> /\ conn = <<>>
    /\ Cardinality(held) = 2

\* the queue without the elements the predicate accepts
Keep(q, should_drop) == SelectSeq(q, LAMBDA x : x \notin should_drop)

\* C11: drop_pendings removes every marker the predicate accepts and keeps
\* the others in their order: each marker is examined once, also the one
\* that follows a removed marker.
C11_DropsEveryMatch ==
    [][\A t \in Threads :
         (thr[t].pc = "drop_pendings" /\ thr'[t].pc = "idle")
         => pending' = Keep(pending, thr[t].arg.should_drop)
      ]_vars

\* C12: try_drop_conns with the lock removes every idle conn the predicate
\* accepts, keeps the others, and lowers spawned by the number of conns
\* removed (not below zero).
C12_EvictsEveryMatch ==
    [][\A t \in Threads :
         (thr[t].pc = "try_drop_conns" /\ thr'[t].pc = "idle")
         => /\ conn' = Keep(conn, thr[t].arg.should_drop)
            /\ spawned' = Max(0, spawned - (Len(conn) - Len(conn')))
      ]_vars

\* C13: after the eviction try_drop_conns compares total = spawned +
\* |pending| with min_idle: below it, min_idle - total markers are pushed
\* behind the old ones and that count is returned; otherwise None is returned
\* and pending is left alone.
C13_Replenish ==
    [][\A t \in Threads :
         (thr[t].pc = "try_drop_conns" /\ thr'[t].pc = "idle")
         => LET total_now == spawned' + Len(pending)
                min_idle == thr[t].arg.min_idle
            IN  IF total_now < min_idle
                THEN /\ Len(pending') = Len(pending) + (min_idle - total_now)
                     /\ SubSeq(pending', 1, Len(pending)) = pending
                     /\ last'.v = min_idle - total_now
                     /\ spawned' + Len(pending') = min_idle
                ELSE /\ pending' = pending
                     /\ last'.v = None
      ]_vars

\* try_drop_conns(2, always false) at spawned = 1, idle = 1, pending = 0
\* returned Some(1) and left one marker
C13_Witness ==
    /\ last.op = "try_drop_conns"
    /\ last.s0 = 1 /\ last.c0 = 1 /\ last.p0 = 0
    /\ max_size >= 2
    /\ last.v = 1
    /\ spawned = 1 /\ Len(conn) = 1 /\ Len(pending) = 1

\* C18: try_drop_conns called while the lock is held returns None at once:
\* the caller does not wait, the lock stays with its owner, and spawned,
\* pending, conn and waiters are what they were; conns are evicted and
\* markers pushed by try_drop_conns only by the thread that holds the lock.
C18_NonBlocking ==
    [][\A t \in Threads :
         /\ (last' # last /\ last'.op = "try_drop_conns_busy" /\ last'.who = t)
            => /\ lock # None /\ lock # t
               /\ lock' = lock
               /\ thr'[t] = thr[t]
               /\ last'.v = None
               /\ UNCHANGED <<spawned, pending, conn, waiters, creating>>
         /\ (thr[t].pc = "try_drop_conns" /\ thr'[t].pc = "idle")
            => lock = t
      ]_vars

\* try_drop_conns returned None while a poll held the lock, with an idle conn
\* in the queue and total below max_size
C18_Witness ==
    /\ last.op = "try_drop_conns_busy"
    /\ lock \in Futures
    /\ conn # <<>>
    /\ spawned + Len(pending) < max_size

\* futures that hold a wait_key
Holders == {f \in Futures : fut[f].wait_key # None}

\* C14: the keys of waiters are the wait_keys of the futures that are alive
\* and have not returned Ready, one slot for each such future; a future that
\* returned Ready or whose drop has run has no key, and its slot is gone.
C14_NoStaleSlot ==
    /\ Keys(waiters) = {fut[f].wait_key : f \in Holders}
    /\ Len(waiters) = Cardinality(Holders)
    /\ \A f \in Holders :
         /\ fut[f].pc \in {"out", "fast", "wantlock", "slow", "droplock"}
         /\ ~fut[f].acquired
    /\ \A f \in Futures :
         fut[f].pc \in {"done", "dropwake", "dropped"} => fut[f].wait_key = None

\* a registered future was dropped and its slot is gone, while the slot of
\* another registered future stays
C14_Witness ==
    /\ last.op \in {"drop", "drop_notify"}
    /\ last.v # None
    /\ fut[last.who].pc = "dropped"
    /\ Len(waiters) = 1
    /\ \E g \in Futures \ {last.who} : fut[g].wait_key = waiters[1].key

\* C15: put_back_incr_spawned pops one pending marker (none from an empty
\* queue); it pushes the new conn behind the idle ones and adds one to
\* spawned when spawned < conn.capacity(), and otherwise drops the conn and
\* leaves spawned and conn alone; either way it then calls wake_one_weak once.
C15_PutBackIncrSpawned ==
    [][\A t \in Threads :
         (thr[t].pc = "put_back_incr_spawned" /\ thr'[t].pc # thr[t].pc)
         => /\ pending' = IF pending = <<>> THEN <<>> ELSE Tail(pending)
            /\ IF spawned < capacity
               THEN /\ Len(conn') = Len(conn) + 1
                    /\ SubSeq(conn', 1, Len(conn)) = conn
                    /\ conn'[Len(conn')] \notin Range(conn) \cup held
                    /\ spawned' = spawned + 1
               ELSE /\ conn' = conn
                    /\ spawned' = spawned
            /\ waiters' = wake_one_weak_list(waiters)
            /\ thr'[t].tok = wake_one_weak_waker(waiters)
            /\ lock = t /\ lock' = None
      ]_vars

\* a creation completed at spawned = capacity(): its conn was dropped and a
\* parked future was notified all the same
C15_Witness ==
    /\ last.op = "put_back_incr_spawned"
    /\ last.s0 >= capacity
    /\ spawned = last.s0
    /\ Len(conn) = last.c0
    /\ last.v \in Futures

\* C17: the drop of a future that holds a wait_key removes its slot; it calls
\* wake_one_weak exactly when the slot removed was empty and the future has
\* not acquired, and the waker taken is invoked after the lock is released.
\* The drop of a future whose slot held a waker, that never registered or
\* that returned Ready notifies nobody.
C17_Cancellation ==
    [][\A f \in Futures :
         /\ (fut[f].pc \in {"out", "done"} /\ fut'[f].pc = "dropped")
            => /\ fut[f].wait_key = None
               /\ waiters' = waiters
               /\ \A g \in Futures : fut'[g].woken => fut[g].woken
         /\ (fut[f].pc = "droplock" /\ fut'[f].pc # "droplock")
            => LET key == fut[f].wait_key
                   w1 == remove(waiters, key)
               IN  /\ key \notin Keys(waiters')
                   /\ \A g \in Futures : fut'[g].woken => fut[g].woken
                   /\ lock = f /\ lock' = None
                   /\ IF get(waiters, key) = None /\ ~fut[f].acquired
                      THEN /\ waiters' = wake_one_weak_list(w1)
                           /\ fut'[f].tok = wake_one_weak_waker(w1)
                           /\ fut'[f].pc = IF Populated(w1) = {}
                                           THEN "dropped" ELSE "dropwake"
                           /\ fut'[f].tok # f
                      ELSE /\ waiters' = w1
                           /\ fut'[f].tok = None
                           /\ fut'[f].pc = "dropped"
         /\ (fut[f].pc = "dropwake" /\ fut'[f].pc # "dropwake")
            => /\ lock # f
               /\ \A g \in Futures :
                    fut'[g].woken # fut[g].woken => g = fut[f].tok
      ]_vars

\* a future whose slot still held its waker was dropped: its slot is gone and
\* the other parked future was left alone
C17_Witness ==
    /\ last.op = "drop"
    /\ last.v # None
    /\ fut[last.who].pc = "dropped"
    /\ ~fut[last.who].acquired
    /\ Populated(waiters) # {}
    /\ \A g \in Futures : ~fut[g].woken
    /\ \A g \in Futures : fut[g].pc # "dropwake"

\* the waker of f was taken out of its slot and f will be polled: it is
\* scheduled, or its waker is about to be invoked, or its poll is under way
WakeOutstanding(f) ==
    /\ get(waiters, fut[f].wait_key) = None
    /\ \/ fut[f].woken
       \/ fut[f].pc = "wantlock"
       \/ \E t \in Threads : thr[t].pc \in WakePcs /\ thr[t].tok = f
       \/ \E g \in Futures : fut[g].pc = "dropwake" /\ fut[g].tok = f

\* C20: while the lock is free, the idle queue is not empty and a live
\* future holds a slot, some such future has had its waker taken by
\* wake_one_weak and has not completed a poll since: conns never sit idle
\* while every live waiter is parked with its waker in its slot.
C20_IdleImpliesWakeOutstanding ==
    (lock = None /\ conn # <<>> /\ Waiting # {})
    => \E f \in Waiting : WakeOutstanding(f)

\* a conn is idle, the waker of one parked future was taken and not yet
\* invoked, and the other parked future still has its waker in its slot
C20_Witness ==
    /\ lock = None /\ conn # <<>>
    /\ Cardinality(Waiting) = 2
    /\ Cardinality(Populated(waiters)) = 1
    /\ \E t \in Threads : thr[t].pc \in WakePcs /\ thr[t].tok \in Waiting
    /\ \A f \in Futures : fut[f].pc = "out" /\ ~fut[f].woken

\* C19: decr_spawned decrements spawned, gives try_spawn the total taken
\* after the decrement, pushes the n markers the closure returns and returns
\* n, all while it holds the lock; with the closure "replenish up to
\* min_idle" the total after the call is the larger of min_idle and the total
\* it found, so callers that run at the same time never push the total past
\* min_idle (min_idle <= max_size).
C19_AtomicReplenish ==
    /\ [][\A t \in Callers :
            (thr[t].pc = "decr_spawned" /\ thr'[t].pc = "idle")
            => LET s1 == IF spawned = 0 THEN 0 ELSE spawned - 1
                   tot == s1 + Len(pending)
                   min_idle == thr[t].arg.min_idle
                   n == IF tot < min_idle THEN min_idle - tot ELSE None
               IN  /\ lock = t /\ lock' = None
                   /\ spawned' = s1
                   /\ last'.v = n
                   /\ Len(pending') = Len(pending) + n
                   /\ SubSeq(pending', 1, Len(pending)) = pending
                   /\ spawned' + Len(pending') = Max(min_idle, tot)
         ]_vars
    /\ [](spawned + Len(pending) <= max_size)

\* a decr_spawned found the marker an earlier decr_spawned had pushed still
\* pending, pushed its own and left the total at min_idle = max_size
C19_Witness ==
    /\ last.op = "decr_spawned"
    /\ last.v >= 1
    /\ last.p0 >= 1
    /\ Len(pending) = last.p0 + last.v
    /\ spawned + Len(pending) = max_size

====
